---- MODULE Spec2Model ----
(***************************************************************************)
(* Model of submissions/accepted/solution.py (Graphistan - Poursuite):     *)
(* the retrograde labelling of the pursuit game's configurations           *)
(* (h, k, turn) and the derivation of the safe vertices.                   *)
(*                                                                         *)
(* A configuration is the tuple <<h, k, turn>>.  Python dictionaries are   *)
(* functions whose DOMAIN is the key set, Python lists are sequences, and  *)
(* Python sets are sets; the order in which a `for` loop walks a set is    *)
(* left open (it differs between interpreters), so each loop over G[u]     *)
(* may take any order.                                                     *)
(***************************************************************************)
EXTENDS Integers, Sequences, FiniteSets, TLC

\* Every graph of at most MaxN vertices is explored.
MaxN == 3
\* The circle and the path of at most MaxM vertices are explored as well.
MaxM == 5
\* Every graph of at most MaxAny vertices is explored under every removal order.
MaxAny == 2

HENRI == 0
KILLER == 1
LOOSING == 0
WINNING == 1
FORWARD == 0
BACKWARD == 1

\* G, nb_escapes, label, to_process, safe: the variables of solve of these
\* names.  pc: "loop" while solve is in or at its while loop, "done" once it
\* has returned safe.  pops: the number of to_process.pop() calls so far (a
\* history variable; the code keeps no such counter).
VARIABLES G, nb_escapes, label, to_process, pc, safe, pops

vars == <<G, nb_escapes, label, to_process, pc, safe, pops>>

----------------------------------------------------------------------------
(* Graph construction *)

\* Variant of add_edge: only G[u].add(v).
add_edge_one_way(g, u, v) == [g EXCEPT ![u] = @ \cup {v}]

\* add_edge: G[u].add(v); G[v].add(u)
add_edge(g, u, v) ==
    LET g1 == [g EXCEPT ![u] = @ \cup {v}]
    IN  [g1 EXCEPT ![v] = @ \cup {u}]

\* The loop of read_graph over the m edge lines (sets absorb the order).
RECURSIVE read_edges(_, _)
read_edges(g, E) ==
    IF E = {} THEN g
    ELSE LET e == CHOOSE x \in E : TRUE
         IN  read_edges(add_edge(g, e[1], e[2]), E \ {e})

\* read_graph: G = [{u} for u in range(n)], then one add_edge per edge.
read_graph(n, E) == read_edges([u \in 0..(n - 1) |-> {u}], E)

\* The edge lines an input may hold for n vertices.
EdgeLines(n) == {e \in (0..(n - 1)) \X (0..(n - 1)) : e[1] < e[2]}

\* generate: the circle on vertices 0..m-1 (labels not shuffled).
circle_edges(m) == {<<u, (u + 1) % m>> : u \in 0..(m - 1)}

\* generate: the path on vertices 0..m-1 (labels not shuffled).
path_edges(m) == {<<u, u + 1>> : u \in 0..(m - 2)}

\* The inputs explored: <<n, edge lines>>.
Inputs ==
    UNION {{<<n, E>> : E \in SUBSET EdgeLines(n)} : n \in 1..MaxN}
    \cup {<<m, circle_edges(m)>> : m \in 3..MaxM}
    \cup {<<m, path_edges(m)>> : m \in 2..MaxM}

\* V = range(len(G))
V == DOMAIN G

----------------------------------------------------------------------------
(* Configuration graph *)

\* Variant of move: h is the coordinate replaced whatever the turn.
move_always_h(config, g, direction) ==
    {<<h1, config[2], 1 - config[3]>> : h1 \in g[config[1]]}

\* Variant of move: the turn is not passed to the other player.
move_keeps_turn(config, g, direction) ==
    IF config[3] = direction
    THEN {<<h1, config[2], config[3]>> : h1 \in g[config[1]]}
    ELSE {<<config[1], k1, config[3]>> : k1 \in g[config[2]]}

\* move(config, G, direction), as the set of the configurations it yields.
move(config, g, direction) ==
    LET h == config[1]
        k == config[2]
        turn == config[3]
    IN  IF turn = direction
        THEN {<<h1, k, 1 - turn>> : h1 \in g[h]}
        ELSE {<<h, k1, 1 - turn>> : k1 \in g[k]}

\* configurations(G)
configurations(g) == (DOMAIN g) \X (DOMAIN g) \X {HENRI, KILLER}

\* The orders in which a generator over a set may yield its elements.
RECURSIVE Orders(_)
Orders(S) ==
    IF S = {} THEN {<<>>}
    ELSE UNION {{<<x>> \o p : p \in Orders(S \ {x})} : x \in S}

----------------------------------------------------------------------------
(* solve: initialisation *)

\* Variant of init_escapes: the counters count the BACKWARD moves.
init_escapes_backward(g) ==
    [c \in configurations(g) |-> Cardinality(move(c, g, BACKWARD))]

\* nb_escapes = {c: len(list(move(c, G, FORWARD))) for c in configurations(G)}
init_escapes(g) ==
    [c \in configurations(g) |-> Cardinality(move(c, g, FORWARD))]

\* Variant of seed_label: the seeds are labeled WINNING.
seed_label_winning(g) == [c \in {<<v, v, HENRI>> : v \in DOMAIN g} |-> WINNING]

\* label = {(v, v, HENRI): LOOSING for v in V}
seed_label(g) == [c \in {<<v, v, HENRI>> : v \in DOMAIN g} |-> LOOSING]

\* to_process = list(label.keys()): the seeds in insertion order v = 0, 1, ...
seed_list(g) == [i \in 1..Cardinality(DOMAIN g) |-> <<i - 1, i - 1, HENRI>>]

\* solve up to the loop, on the graph read from the input <<n, edge lines>>.
solve_init(in) ==
        /\ G = read_graph(in[1], in[2])
        /\ nb_escapes = init_escapes(G)
        /\ label = seed_label(G)
        /\ to_process = seed_list(G)
        /\ pc = "loop"
        /\ safe = <<>>
        /\ pops = 0

Init == \E in \in Inputs : solve_init(in)

----------------------------------------------------------------------------
(* solve: the worklist loop *)

\* Variant of for_loosing: the loop ends at the first predecessor it labels.
RECURSIVE for_loosing_first_only(_, _, _)
for_loosing_first_only(ord, lab, tp) ==
    IF ord = <<>> THEN [label |-> lab, to_process |-> tp]
    ELSE LET c1 == Head(ord)
         IN  IF c1 \notin DOMAIN lab
             THEN [label |-> lab @@ (c1 :> WINNING), to_process |-> Append(tp, c1)]
             ELSE for_loosing_first_only(Tail(ord), lab, tp)

\* Variant of for_loosing: no `c1 not in label` test.
RECURSIVE for_loosing_no_guard(_, _, _)
for_loosing_no_guard(ord, lab, tp) ==
    IF ord = <<>> THEN [label |-> lab, to_process |-> tp]
    ELSE LET c1 == Head(ord)
         IN  for_loosing_no_guard(Tail(ord), (c1 :> WINNING) @@ lab, Append(tp, c1))

\* Body of `for c1 in move(config, G, BACKWARD)` when label[config] == LOOSING.
RECURSIVE for_loosing(_, _, _)
for_loosing(ord, lab, tp) ==
    IF ord = <<>> THEN [label |-> lab, to_process |-> tp]
    ELSE LET c1 == Head(ord)
         IN  IF c1 \notin DOMAIN lab
             THEN for_loosing(Tail(ord), lab @@ (c1 :> WINNING), Append(tp, c1))
             ELSE for_loosing(Tail(ord), lab, tp)

\* Variant of for_winning: the counter is not decremented.
RECURSIVE for_winning_no_decrement(_, _, _, _)
for_winning_no_decrement(ord, nb, lab, tp) ==
    IF ord = <<>> THEN [nb_escapes |-> nb, label |-> lab, to_process |-> tp]
    ELSE LET c1 == Head(ord)
         IN  IF nb[c1] = 0 /\ c1 \notin DOMAIN lab
             THEN for_winning_no_decrement(Tail(ord), nb, lab @@ (c1 :> LOOSING),
                                           Append(tp, c1))
             ELSE for_winning_no_decrement(Tail(ord), nb, lab, tp)

\* Variant of for_winning: LOOSING as soon as at most one escape is left.
RECURSIVE for_winning_eager(_, _, _, _)
for_winning_eager(ord, nb, lab, tp) ==
    IF ord = <<>> THEN [nb_escapes |-> nb, label |-> lab, to_process |-> tp]
    ELSE LET c1 == Head(ord)
             nb1 == [nb EXCEPT ![c1] = @ - 1]
         IN  IF nb1[c1] <= 1 /\ c1 \notin DOMAIN lab
             THEN for_winning_eager(Tail(ord), nb1, lab @@ (c1 :> LOOSING),
                                    Append(tp, c1))
             ELSE for_winning_eager(Tail(ord), nb1, lab, tp)

\* Variant of for_winning: no `c1 not in label` test.
RECURSIVE for_winning_no_guard(_, _, _, _)
for_winning_no_guard(ord, nb, lab, tp) ==
    IF ord = <<>> THEN [nb_escapes |-> nb, label |-> lab, to_process |-> tp]
    ELSE LET c1 == Head(ord)
             nb1 == [nb EXCEPT ![c1] = @ - 1]
         IN  IF nb1[c1] = 0
             THEN for_winning_no_guard(Tail(ord), nb1, (c1 :> LOOSING) @@ lab,
                                       Append(tp, c1))
             ELSE for_winning_no_guard(Tail(ord), nb1, lab, tp)

\* Body of `for c1 in move(config, G, BACKWARD)` when label[config] == WINNING.
RECURSIVE for_winning(_, _, _, _)
for_winning(ord, nb, lab, tp) ==
    IF ord = <<>> THEN [nb_escapes |-> nb, label |-> lab, to_process |-> tp]
    ELSE LET c1 == Head(ord)
             nb1 == [nb EXCEPT ![c1] = @ - 1]
         IN  IF nb1[c1] = 0 /\ c1 \notin DOMAIN lab
             THEN for_winning(Tail(ord), nb1, lab @@ (c1 :> LOOSING), Append(tp, c1))
             ELSE for_winning(Tail(ord), nb1, lab, tp)

\* The list without its i-th element; list.pop() is i = Len(list).
without(s, i) == SubSeq(s, 1, i - 1) \o SubSeq(s, i + 1, Len(s))

\* One iteration of the loop on the i-th element, LOOSING branch.
iter_loosing(i) ==
    LET config == to_process[i]
    IN  /\ label[config] = LOOSING
        /\ \E ord \in Orders(move(config, G, BACKWARD)) :
              LET r == for_loosing(ord, label, without(to_process, i))
              IN  /\ label' = r.label
                  /\ to_process' = r.to_process
        /\ pops' = pops + 1
        /\ UNCHANGED <<G, nb_escapes, pc, safe>>

\* One iteration of the loop on the i-th element, WINNING branch.
iter_winning(i) ==
    LET config == to_process[i]
    IN  /\ label[config] = WINNING
        /\ \E ord \in Orders(move(config, G, BACKWARD)) :
              LET r == for_winning(ord, nb_escapes, label, without(to_process, i))
              IN  /\ nb_escapes' = r.nb_escapes
                  /\ label' = r.label
                  /\ to_process' = r.to_process
        /\ pops' = pops + 1
        /\ UNCHANGED <<G, pc, safe>>

\* while to_process: config = to_process.pop(); if label[config] == LOOSING: ...
PopLoosing ==
    /\ pc = "loop"
    /\ to_process # <<>>
    /\ iter_loosing(Len(to_process))

\* while to_process: config = to_process.pop(); elif label[config] == WINNING: ...
PopWinning ==
    /\ pc = "loop"
    /\ to_process # <<>>
    /\ iter_winning(Len(to_process))

----------------------------------------------------------------------------
(* solve: the safe vertices *)

\* Variant of is_safe: no `k != h` test.
is_safe_with_self(h, g, lab) ==
    \A k \in DOMAIN g :
        ~(<<h, k, HENRI>> \in DOMAIN lab /\ lab[<<h, k, HENRI>>] = LOOSING)

\* Variant of is_safe: an unlabeled (h, k, HENRI) makes h unsafe.
is_safe_labeled_only(h, g, lab) ==
    \A k \in DOMAIN g :
        k # h => (<<h, k, HENRI>> \in DOMAIN lab /\ lab[<<h, k, HENRI>>] # LOOSING)

\* The inner loop over k for one h: is_safe after it.
is_safe(h, g, lab) ==
    \A k \in DOMAIN g :
        k # h => ~(<<h, k, HENRI>> \in DOMAIN lab /\ lab[<<h, k, HENRI>>] = LOOSING)

\* The outer loop `for h in V` from h on: safe.append(h) in increasing h.
RECURSIVE safe_from(_, _, _, _)
safe_from(h, g, lab, acc) ==
    IF h \notin DOMAIN g THEN acc
    ELSE safe_from(h + 1, g, lab, IF is_safe(h, g, lab) THEN Append(acc, h) ELSE acc)

\* The loop has ended: compute and return safe.
Return ==
    /\ pc = "loop"
    /\ to_process = <<>>
    /\ safe' = safe_from(0, G, label, <<>>)
    /\ pc' = "done"
    /\ UNCHANGED <<G, nb_escapes, label, to_process, pops>>

Next == PopLoosing \/ PopWinning \/ Return

Spec == Init /\ [][Next]_vars

\* solve runs to its return: the sequential program takes its next step.
FairSpec == Spec /\ WF_vars(Next)

----------------------------------------------------------------------------
(* The worklist loop with any element removed *)

\* The pop of solve takes the last element (PopLoosing, PopWinning).  These
\* two actions are the same loop body run on an element at any index i, to
\* compare every removal order (FIFO is i = 1) with the one of the code.
PopAnyLoosing ==
    /\ pc = "loop"
    /\ \E i \in 1..Len(to_process) : iter_loosing(i)

PopAnyWinning ==
    /\ pc = "loop"
    /\ \E i \in 1..Len(to_process) : iter_winning(i)

NextAny == PopAnyLoosing \/ PopAnyWinning \/ Return

\* Every graph of at most MaxAny vertices, and the path and the circle on
\* three vertices.
InputsAny ==
    UNION {{<<n, E>> : E \in SUBSET EdgeLines(n)} : n \in 1..MaxAny}
    \cup {<<3, path_edges(3)>>, <<3, circle_edges(3)>>}

InitAny == \E in \in InputsAny : solve_init(in)

SpecAny == InitAny /\ [][NextAny]_vars

\* The loop of solve as a function of its three containers: the label map
\* it ends with when it pops the last element each time.
RECURSIVE lifo_run(_, _, _)
lifo_run(nb, lab, tp) ==
    IF tp = <<>> THEN lab
    ELSE LET config == tp[Len(tp)]
             rest == without(tp, Len(tp))
             ord == CHOOSE o \in Orders(move(config, G, BACKWARD)) : TRUE
         IN  IF lab[config] = LOOSING
             THEN LET r == for_loosing(ord, lab, rest)
                  IN  lifo_run(nb, r.label, r.to_process)
             ELSE LET r == for_winning(ord, nb, lab, rest)
                  IN  lifo_run(r.nb_escapes, r.label, r.to_process)

\* The label map of solve(G).
lifo_label == lifo_run(init_escapes(G), seed_label(G), seed_list(G))

----------------------------------------------------------------------------
(* Vocabulary of the properties *)

IsLoosing(c) == c \in DOMAIN label /\ label[c] = LOOSING
IsWinning(c) == c \in DOMAIN label /\ label[c] = WINNING

\* The vertices of the returned list.
SafeSet == {safe[i] : i \in 1..Len(safe)}

\* The worklist loop has ended.
Terminated == to_process = <<>>

\* The vertices 0, 1, ..., n-1 as a list.
Ascending(n) == [i \in 1..n |-> i - 1]

NbVertices == Cardinality(V)

IsCircle == G = read_graph(NbVertices, circle_edges(NbVertices))
IsPath == G = read_graph(NbVertices, path_edges(NbVertices))

\* The connected component of G that holds the vertices of S.
RECURSIVE Component(_)
Component(S) ==
    LET T == S \cup UNION {G[x] : x \in S}
    IN  IF T = S THEN S ELSE Component(T)

----------------------------------------------------------------------------
\* C1: solve returns exactly the vertices h for which no k # h has
\* (h, k, HENRI) labeled LOOSING once the worklist is empty; an unlabeled or
\* WINNING (h, k, HENRI) does not make h unsafe, and (h, h, HENRI), which is
\* LOOSING, does not either.
SafeIffNoLoosingPair ==
    pc = "done" =>
        /\ Terminated
        /\ Len(safe) = Cardinality(SafeSet)
        /\ \A h \in V :
              h \in SafeSet <=> ~(\E k \in V \ {h} : IsLoosing(<<h, k, HENRI>>))

\* A run that returned a safe and an unsafe vertex, the safe one next to an
\* unlabeled pair.
SafeIffNoLoosingPairWitness ==
    /\ pc = "done"
    /\ \E h \in SafeSet : \E k \in V \ {h} :
          /\ <<h, k, HENRI>> \notin DOMAIN label
          /\ IsLoosing(<<h, h, HENRI>>)
    /\ \E h \in V : h \notin SafeSet

\* C2: at termination a configuration is WINNING iff one of its forward
\* moves leads to a LOOSING configuration.
WinningIffSomeLoosing ==
    (pc = "loop" /\ Terminated) =>
        \A c \in configurations(G) :
            IsWinning(c) <=> (\E s \in move(c, G, FORWARD) : IsLoosing(s))

WinningIffSomeLoosingWitness ==
    /\ pc = "loop"
    /\ Terminated
    /\ \E c \in configurations(G) : IsWinning(c)
    /\ \E c \in configurations(G) : c \notin DOMAIN label

\* C3: at termination a configuration, the seeds (v, v, HENRI) included, is
\* LOOSING iff all of its forward moves lead to WINNING configurations.
LoosingIffAllWinning ==
    (pc = "loop" /\ Terminated) =>
        \A c \in configurations(G) :
            IsLoosing(c) <=> (\A s \in move(c, G, FORWARD) : IsWinning(s))

\* A terminated run that deduced a LOOSING configuration by the counter.
LoosingIffAllWinningWitness ==
    /\ pc = "loop"
    /\ Terminated
    /\ \E c \in configurations(G) : c[1] # c[2] /\ IsLoosing(c)
    /\ \E c \in configurations(G) : c \notin DOMAIN label

\* The reference operator of C4: one round of the two closure rules.
AttractorStep(L) ==
    LET win == {c \in configurations(G) \ DOMAIN L :
                  \E s \in move(c, G, FORWARD) : s \in DOMAIN L /\ L[s] = LOOSING}
        lose == {c \in configurations(G) \ DOMAIN L :
                  \A s \in move(c, G, FORWARD) : s \in DOMAIN L /\ L[s] = WINNING}
    IN  [c \in DOMAIN L \cup win \cup lose |->
            IF c \in DOMAIN L THEN L[c]
            ELSE IF c \in win THEN WINNING ELSE LOOSING]

RECURSIVE AttractorFrom(_)
AttractorFrom(L) ==
    LET L1 == AttractorStep(L)
    IN  IF L1 = L THEN L ELSE AttractorFrom(L1)

\* The least fixed point from the seeds {(v, v, HENRI) : LOOSING}.
Attractor == AttractorFrom([c \in {<<v, v, HENRI>> : v \in V} |-> LOOSING])

\* C4: at termination the label map is the least fixed point of the closure
\* rules from the seeds: same labeled set, same labels, the rest unlabeled.
LabelIsAttractor == (pc = "loop" /\ Terminated) => label = Attractor

LabelIsAttractorWitness ==
    /\ pc = "loop"
    /\ Terminated
    /\ \E c \in configurations(G) : c[1] # c[2] /\ IsLoosing(c)
    /\ \E c \in configurations(G) : IsWinning(c)
    /\ DOMAIN label # configurations(G)
    /\ pops > NbVertices

\* C7: in every state of solve every (v, v, HENRI) is labeled LOOSING.
SeedsStayLoosing == \A v \in V : IsLoosing(<<v, v, HENRI>>)

\* A run in which a seed has had all its counter decrements.
SeedsStayLoosingWitness ==
    /\ pops > 0
    /\ \E v \in V : nb_escapes[<<v, v, HENRI>>] = 0 /\ IsLoosing(<<v, v, HENRI>>)

\* C8 as stated: on the circle of m >= 3 vertices every vertex is safe.
CircleAllSafe ==
    (pc = "done" /\ NbVertices >= 3 /\ IsCircle) => safe = Ascending(NbVertices)

\* C8 amended: on the circle of m >= 4 vertices every vertex is safe.
CircleFromFourAllSafe ==
    (pc = "done" /\ NbVertices >= 4 /\ IsCircle) => safe = Ascending(NbVertices)

CircleFromFourAllSafeWitness ==
    /\ pc = "done"
    /\ NbVertices >= 5
    /\ IsCircle
    /\ safe = Ascending(NbVertices)

\* C9: on the path of m >= 2 vertices solve returns the empty list.
PathNoneSafe ==
    (pc = "done" /\ NbVertices >= 2 /\ IsPath) => safe = <<>>

PathNoneSafeWitness ==
    /\ pc = "done"
    /\ NbVertices >= 4
    /\ IsPath
    /\ safe = <<>>

\* C10: a configuration whose h and k lie in different connected components
\* is never labeled, a vertex with no other vertex in its component is
\* returned as safe, and on two vertices without an edge (0, 1, HENRI) stays
\* unlabeled and both vertices are returned.
ComponentsStayApart ==
    /\ \A c \in DOMAIN label : c[2] \in Component({c[1]})
    /\ pc = "done" => \A h \in V : Component({h}) = {h} => h \in SafeSet
    /\ (NbVertices = 2 /\ G[0] = {0} /\ G[1] = {1}) =>
          /\ <<0, 1, HENRI>> \notin DOMAIN label
          /\ pc = "done" => safe = <<0, 1>>

ComponentsStayApartWitness ==
    /\ pc = "done"
    /\ NbVertices = 2
    /\ G[0] = {0}
    /\ G[1] = {1}
    /\ safe = <<0, 1>>
    /\ <<0, 1, HENRI>> \notin DOMAIN label

\* C5: whatever element each step removes from the worklist, and whatever
\* order the loops over G[u] take, the run ends with the label map and the
\* safe vertices of the run that removes the last element: the result is a
\* function of the graph alone.
OrderIndependent ==
    pc = "done" =>
        /\ label = lifo_label
        /\ safe = safe_from(0, G, lifo_label, <<>>)

\* A finished run on a graph with an edge, where the orders differ.
OrderIndependentWitness ==
    /\ pc = "done"
    /\ NbVertices >= 3
    /\ \E c \in configurations(G) : c[1] # c[2] /\ IsLoosing(c)
    /\ pops > NbVertices

\* C6: the worklist loop ends, and it ends within 2 * n^2 pops.
TerminatesWithinBound ==
    /\ [](pops <= 2 * NbVertices * NbVertices)
    /\ <>Terminated

\* The bound is met: a terminated run of exactly 2 * n^2 pops.
TerminatesWithinBoundWitness ==
    /\ Terminated
    /\ NbVertices >= 3
    /\ pops = 2 * NbVertices * NbVertices

\* C11: on the single vertex with its self-loop, (0, 0, HENRI) is labeled
\* LOOSING and solve returns vertex 0.
SingleVertexSafe ==
    NbVertices = 1 =>
        /\ G[0] = {0}
        /\ IsLoosing(<<0, 0, HENRI>>)
        /\ pc = "done" => safe = <<0>>

SingleVertexSafeWitness ==
    /\ NbVertices = 1
    /\ pc = "done"
    /\ safe = <<0>>
    /\ IsLoosing(<<0, 0, HENRI>>)

\* C12: labels are write-once.  A labeled configuration keeps its label in
\* every step, and every assignment of a step (each is followed by one
\* append) labels a configuration that had no label: a loop iteration grows
\* the worklist, after its pop, by exactly the number of new labels.
LabelsWriteOnce ==
    [][/\ \A c \in DOMAIN label : c \in DOMAIN label' /\ label'[c] = label[c]
       /\ pops' = pops + 1 =>
             Len(to_process') - (Len(to_process) - 1)
                 = Cardinality(DOMAIN label' \ DOMAIN label)]_vars

\* A state in which the loop has met a labeled predecessor again: some
\* labeled configuration has two LOOSING forward moves already popped.
LabelsWriteOnceWitness ==
    /\ Terminated
    /\ \E c \in configurations(G) :
          /\ IsWinning(c)
          /\ Cardinality({s \in move(c, G, FORWARD) : IsLoosing(s)}) >= 2

\* The configurations of the worklist are pairwise different.
NoDuplicate(s) == \A i, j \in 1..Len(s) : s[i] = s[j] => i = j

\* C13: a configuration is pushed exactly once.  The worklist never holds a
\* configuration twice, every configuration in it has its label, the pushes
\* so far (the pops plus the present length) are as many as the labeled
\* configurations, and the run reaches the empty worklist with every labeled
\* configuration popped.
PushedExactlyOnce ==
    /\ [](/\ NoDuplicate(to_process)
          /\ \A i \in 1..Len(to_process) : to_process[i] \in DOMAIN label
          /\ pops + Len(to_process) = Cardinality(DOMAIN label))
    /\ <>(Terminated /\ pops = Cardinality(DOMAIN label))

\* A finished loop that popped configurations of both labels beyond the seeds.
PushedExactlyOnceWitness ==
    /\ Terminated
    /\ NbVertices >= 3
    /\ pops = Cardinality(DOMAIN label)
    /\ pops > 2 * NbVertices
    /\ \E c \in configurations(G) : c[1] # c[2] /\ IsLoosing(c)

\* C14: every counter stays non-negative: nb_escapes[c] is decremented at
\* most once per forward move of c.
EscapesNonNegative ==
    \A c \in configurations(G) :
        /\ nb_escapes[c] >= 0
        /\ nb_escapes[c] <= Cardinality(move(c, G, FORWARD))

\* A counter that took every one of its decrements, on a vertex of degree >= 2.
EscapesNonNegativeWitness ==
    \E c \in configurations(G) :
        /\ Cardinality(move(c, G, FORWARD)) >= 2
        /\ nb_escapes[c] = 0

\* The seeds of rule (1).
IsSeed(c) == c[1] = c[2] /\ c[3] = HENRI

BackwardIsPredecessor ==
    \A c, c1 \in configurations(G) :
        c1 \in move(c, G, BACKWARD) <=> c \in move(c1, G, FORWARD)

\* The loop has used BACKWARD moves along an edge of a graph whose vertices
\* have different neighbourhoods.
BackwardIsPredecessorWitness ==
    /\ pops > NbVertices
    /\ \E u, v \in V : u # v /\ v \in G[u] /\ G[u] # G[v]
    /\ \E c \in DOMAIN label : c[1] # c[2]

\* C17 as stated: for both turns the BACKWARD moves of (h, k, turn) are the
\* (h1, k, opposite turn) with h1 a neighbour of h.
BackwardReplacesH ==
    \A c \in configurations(G) :
        move(c, G, BACKWARD) = {<<h1, c[2], 1 - c[3]>> : h1 \in G[c[1]]}

\* C17 amended: the BACKWARD moves of (h, k, KILLER) are the (h1, k, HENRI)
\* with h1 a neighbour of h, and those of (h, k, HENRI) are the
\* (h, k1, KILLER) with k1 a neighbour of k.
BackwardReplacesMover ==
    \A c \in configurations(G) :
        /\ c[3] = KILLER =>
              move(c, G, BACKWARD) = {<<h1, c[2], HENRI>> : h1 \in G[c[1]]}
        /\ c[3] = HENRI =>
              move(c, G, BACKWARD) = {<<c[1], k1, KILLER>> : k1 \in G[c[2]]}

\* The loop has popped a HENRI configuration whose BACKWARD moves are not
\* the ones that replace h.
BackwardReplacesMoverWitness ==
    /\ pops > 0
    /\ \E c \in DOMAIN label :
          /\ c[3] = HENRI
          /\ \A i \in 1..Len(to_process) : to_process[i] # c
          /\ move(c, G, BACKWARD) # {<<h1, c[2], KILLER>> : h1 \in G[c[1]]}

\* C18: each time the loop condition is evaluated, nb_escapes[c] is the
\* number of forward moves of c that are not labeled WINNING.
EscapesCountNonWinning ==
    pc = "loop" =>
        \A c \in configurations(G) :
            nb_escapes[c]
                = Cardinality({s \in move(c, G, FORWARD) : ~IsWinning(s)})

\* What the loop keeps instead of C18: the counter is decremented when a
\* WINNING forward move is popped, not when it is labeled.
EscapesCountNotPopped ==
    pc = "loop" =>
        \A c \in configurations(G) :
            nb_escapes[c]
                = Cardinality({s \in move(c, G, FORWARD) :
                                 ~(IsWinning(s)
                                   /\ \A i \in 1..Len(to_process) : to_process[i] # s)})

\* C19: every configuration has a forward move, there are 2 * n^2 counters,
\* and before the first pop nb_escapes[c] is |G[h]| on HENRI's turn and
\* |G[k]| on KILLER's turn.
EscapesStartAtDegree ==
    /\ \A c \in configurations(G) : move(c, G, FORWARD) # {}
    /\ DOMAIN nb_escapes = configurations(G)
    /\ Cardinality(DOMAIN nb_escapes) = 2 * NbVertices * NbVertices
    /\ pops = 0 =>
          \A c \in configurations(G) :
              /\ nb_escapes[c] >= 1
              /\ c[3] = HENRI => nb_escapes[c] = Cardinality(G[c[1]])
              /\ c[3] = KILLER => nb_escapes[c] = Cardinality(G[c[2]])

\* The counters before the first pop on a graph with two degrees.
EscapesStartAtDegreeWitness ==
    /\ pops = 0
    /\ \E u, v \in V : Cardinality(G[u]) # Cardinality(G[v])
    /\ \E c \in configurations(G) : nb_escapes[c] >= 3

\* C20: a labeled configuration is LOOSING on HENRI's turn and WINNING on
\* KILLER's turn, and a returned run has h unsafe exactly when some
\* (h, k, HENRI) with k # h has a label.
LabelFollowsTurn ==
    /\ \A c \in DOMAIN label :
          /\ c[3] = HENRI => label[c] = LOOSING
          /\ c[3] = KILLER => label[c] = WINNING
    /\ pc = "done" =>
          \A h \in V :
              h \notin SafeSet <=> (\E k \in V \ {h} : <<h, k, HENRI>> \in DOMAIN label)

\* A returned run with labels of both turns, an unsafe and a safe vertex.
LabelFollowsTurnWitness ==
    /\ pc = "done"
    /\ \E c \in DOMAIN label : c[3] = KILLER /\ c[1] # c[2]
    /\ \E c \in DOMAIN label : c[3] = HENRI /\ c[1] # c[2]
    /\ \E h \in V : h \notin SafeSet
    /\ \E h \in V : h \in SafeSet

====
